---------------------------- MODULE Spec2Model ----------------------------
(***************************************************************************)
(* Model of the crawl engine of src/crawler.py (class Crawler).            *)
(*                                                                         *)
(* One spider process per thread_id runs Crawler.spider.  Shared between   *)
(* the processes: the two multiprocessing.Value counters num_pages and     *)
(* size_limit, the manager queues, and the files of the output directory.  *)
(* Private to each process (copied when the process is created): visited,  *)
(* timeout, thread_id, the interpreter's string-hash salt.                 *)
(***************************************************************************)
EXTENDS Integers, Sequences, FiniteSets, TLC

\* ------------------------------------------------------------------ bounds

\* number of spider processes (num_procs=16 in the __main__ block)
num_procs == 2
\* the page budget of the run (num_pages passed to Crawler)
MaxPages == 3
\* the byte budget of the run (size_limit=500*1024*1024 in the __main__ block)
MaxSize == 6
\* per-process idle budget (timeout=30*60 in the __main__ block)
InitTimeout == 5
\* rotation ceiling of one output file (10*1024*1024 in save_to_json)
RotateSize == 4
\* the count of consecutive 429 answers is tracked up to this value
MaxRetries == 2
\* the hop limit of the run: expansions allowed between a seed and an item
HopLimit == 1

\* ------------------------------------------------------- program constants

\* self.sleep_time
sleep_time == 5

\* ------------------------------------------------------- the content source

\* submission urls known to the content source
Urls == {1, 2}

\* subreddit display names (strings distinct from every url)
SubredditOf(u) == 9 + u

Subreddits == {SubredditOf(u) : u \in Urls}

\* a link that is no reddit post: reddit.submission(url=link) raises
ExternalLink == 20

\* every value that is ever hashed
Identifiers == Urls \cup Subreddits

\* seeds.txt, one url per line
SeedFile == <<1, 2>>

\* the comments of a submission: the subreddits each body mentions and the
\* links it holds, in the order extract_subreddits / extract_urls return them
CommentsOf(u) ==
    CASE u = 1 -> << [mentions |-> <<SubredditOf(2)>>, links |-> <<ExternalLink>>] >>
      [] u = 2 -> << [mentions |-> <<>>, links |-> <<1>>] >>
      [] OTHER -> << >>

\* subreddit.new(limit=1000): the posts of a subreddit, each exposing post.url
NewPosts(s) == IF s - 9 \in Urls THEN <<s - 9>> ELSE << >>

\* len(json.dumps(post_dict).encode('utf-8')) of the record of submission u
JsonLen(u) == u + 1

\* bytes that json.dump(post_dict, f); f.write("\n") add to the file
LineLen(u) == JsonLen(u) + 1

\* --------------------------------------------------------------- the state

Procs == 0 .. (num_procs - 1)
\* the parent process, which runs __init__ and load_seeds
Main == num_procs
Interpreters == Procs \cup {Main}
\* how multiprocessing creates the children
StartMethods == {"fork", "spawn"}
\* the local variable url before the first queue.get
None == 0

VARIABLES
    num_pages,   \* Value('q'): pages still to be processed (shared)
    size_limit,  \* Value('q'): bytes still to be stored (shared)
    queues,      \* queues[i]: the manager queue process i reads (shared)
    files,       \* index -> lines of reddit_data_<index>.json (shared)
    visited,     \* visited[p]: self.visited of process p (private copy)
    timeout,     \* timeout[p]: self.timeout of process p (private copy)
    hash_salt,   \* hash_salt[p]: string-hash salt of p's interpreter
    pc,          \* pc[p]: where process p is in spider / parse_url
    url,         \* url[p]: the local variable url of spider
    file_index,  \* file_index[p]: the local variable of save_to_json
    attempts,    \* attempts[p]: 429 answers for url[p], up to MaxRetries
    printed      \* printed[p]: what parse_url last reported for url[p]

vars == <<num_pages, size_limit, queues, files, visited, timeout, hash_salt,
          pc, url, file_index, attempts, printed>>

\* History of a run, kept beside the program state and read by no action of
\* the program: it changes only under HistorySpec.
VARIABLES
    idle,        \* idle[p]: empty polls of p since it last took a url
    depth,       \* depth[p]: expansions between a seed and url[p]
    queue_depth  \* queue_depth[i][k]: the same for the k-th url of queue i

hist == <<idle, depth, queue_depth>>

\* ------------------------------------------------------------ pure helpers

Abs(x) == IF x < 0 THEN -x ELSE x

Min(a, b) == IF a < b THEN a ELSE b

\* the builtin hash() of a str under a given interpreter salt: a signed
\* value that depends on the salt (PYTHONHASHSEED unset: salt random per
\* interpreter start)
BuiltinHash(salt, value) == ((value + salt) % 11) - 5

\* the salt of every interpreter: a forked child is a copy of the parent and
\* keeps its salt, a spawned child is a new interpreter with a salt of its own
InterpreterSalts(method) ==
    [i \in Interpreters |-> IF method = "fork" THEN 0 ELSE num_procs - i]

\* Crawler.hash evaluated in an interpreter with the given salt
HashWith(salt, value) == Abs(BuiltinHash(salt, value)) % num_procs

\* Crawler.hash evaluated in process p
Hash(p, value) == HashWith(hash_salt[p], value)

\* queue.put(item) on queue i
Put(qs, i, item) == [qs EXCEPT ![i] = Append(@, item)]

\* load_seeds: every seed goes to the queue the parent's hash names
RECURSIVE LoadSeeds(_, _, _)
LoadSeeds(qs, seeds, salt) ==
    IF seeds = << >> THEN qs
    ELSE LoadSeeds(Put(qs, HashWith(salt, Head(seeds)), Head(seeds)),
                   Tail(seeds), salt)

\* parse_comment, first loop: every post of every mentioned subreddit is put
\* on the queue named by the hash of post.url
RECURSIVE PutPosts(_, _, _)
PutPosts(qs, p, posts) ==
    IF posts = << >> THEN qs
    ELSE PutPosts(Put(qs, Hash(p, Head(posts)), Head(posts)), p, Tail(posts))

RECURSIVE PutMentions(_, _, _)
PutMentions(qs, p, mentions) ==
    IF mentions = << >> THEN qs
    ELSE PutMentions(PutPosts(qs, p, NewPosts(Head(mentions))), p, Tail(mentions))

\* parse_comment, second loop: a link that resolves to a submission is put on
\* the queue named by the hash of the submission's subreddit name; any other
\* link raises and is kept as an external link
RECURSIVE PutLinks(_, _, _)
PutLinks(qs, p, links) ==
    IF links = << >> THEN qs
    ELSE IF Head(links) \in Urls
         THEN PutLinks(Put(qs, Hash(p, SubredditOf(Head(links))), Head(links)),
                       p, Tail(links))
         ELSE PutLinks(qs, p, Tail(links))

parse_comment(qs, p, comment) ==
    PutLinks(PutMentions(qs, p, comment.mentions), p, comment.links)

\* parse_submission up to the call of save_to_json
RECURSIVE ParseComments(_, _, _)
ParseComments(qs, p, comments) ==
    IF comments = << >> THEN qs
    ELSE ParseComments(parse_comment(qs, p, Head(comments)), p, Tail(comments))

\* os.path.exists / os.path.getsize of reddit_data_<i>.json
Exists(fs, i) == i \in DOMAIN fs

RECURSIVE SumLines(_)
SumLines(lines) ==
    IF lines = << >> THEN 0
    ELSE LineLen(Head(lines).url) + SumLines(Tail(lines))

GetSize(fs, i) == SumLines(fs[i])

\* NextIndex with a file of exactly the ceiling still taken as not full
RECURSIVE NextIndexStrict(_, _)
NextIndexStrict(fs, i) ==
    IF Exists(fs, i) /\ GetSize(fs, i) > RotateSize
    THEN NextIndexStrict(fs, i + 1)
    ELSE i

\* the while loop of save_to_json: the first index whose file is absent or
\* smaller than the ceiling
RECURSIVE NextIndex(_, _)
NextIndex(fs, i) ==
    IF Exists(fs, i) /\ GetSize(fs, i) >= RotateSize
    THEN NextIndex(fs, i + 1)
    ELSE i

\* open(..., 'a'): the file exists afterwards
Opened(fs, i) ==
    [j \in DOMAIN fs \cup {i} |-> IF j \in DOMAIN fs THEN fs[j] ELSE << >>]

\* json.dump(post_dict, f); f.write("\n")
AppendLine(fs, i, rec) == [Opened(fs, i) EXCEPT ![i] = Append(@, rec)]

\* ------------------------------------------------------------------- Init

\* nothing has happened yet: no empty poll, every queued url is a seed
HistoryInit ==
    /\ idle = [p \in Procs |-> 0]
    /\ depth = [p \in Procs |-> 0]
    /\ queue_depth = [i \in Procs |-> [k \in 1 .. Len(queues[i]) |-> 0]]

Init ==
    /\ num_pages = MaxPages
    /\ size_limit = MaxSize
    /\ \E method \in StartMethods : hash_salt = InterpreterSalts(method)
    /\ queues = LoadSeeds([i \in Procs |-> << >>], SeedFile, hash_salt[Main])
    /\ files = << >>
    /\ visited = [p \in Procs |-> {}]
    /\ timeout = [p \in Procs |-> InitTimeout]
    /\ pc = [p \in Procs |-> "loop"]
    /\ url = [p \in Procs |-> None]
    /\ file_index = [p \in Procs |-> 0]
    /\ attempts = [p \in Procs |-> 0]
    /\ printed = [p \in Procs |-> "started"]
    /\ HistoryInit

\* ---------------------------------------------------------------- actions

\* spider: the loop condition is false, the process returns
SpiderExhausted(p) ==
    /\ pc[p] = "loop"
    /\ ~(num_pages > 0 /\ size_limit > 0)
    /\ pc' = [pc EXCEPT ![p] = "stopped"]
    /\ UNCHANGED <<num_pages, size_limit, queues, files, visited, timeout,
                   hash_salt, url, file_index, attempts, printed>>

\* spider: the queue is empty; the idle budget shrinks and the process
\* returns once it is negative
SpiderEmpty(p) ==
    /\ pc[p] = "loop"
    /\ num_pages > 0 /\ size_limit > 0
    /\ queues[p] = << >>
    /\ timeout' = [timeout EXCEPT ![p] = @ - sleep_time]
    /\ IF timeout'[p] < 0
       THEN /\ pc' = [pc EXCEPT ![p] = "stopped"]
            /\ printed' = [printed EXCEPT ![p] = "timed out"]
       ELSE UNCHANGED <<pc, printed>>
    /\ UNCHANGED <<num_pages, size_limit, queues, files, visited, hash_salt,
                   url, file_index, attempts>>

\* spider: a url is taken from the own queue; parse_url returns at once when
\* the url is in the own visited set and claims it otherwise
SpiderGet(p) ==
    /\ pc[p] = "loop"
    /\ num_pages > 0 /\ size_limit > 0
    /\ queues[p] # << >>
    /\ url' = [url EXCEPT ![p] = Head(queues[p])]
    /\ queues' = [queues EXCEPT ![p] = Tail(@)]
    /\ IF Head(queues[p]) \in visited[p]
       THEN /\ printed' = [printed EXCEPT ![p] = "already visited"]
            /\ UNCHANGED <<visited, pc, attempts>>
       ELSE /\ visited' = [visited EXCEPT ![p] = @ \cup {Head(queues[p])}]
            /\ pc' = [pc EXCEPT ![p] = "fetch"]
            /\ attempts' = [attempts EXCEPT ![p] = 0]
            /\ printed' = [printed EXCEPT ![p] = "processing"]
    /\ UNCHANGED <<num_pages, size_limit, files, timeout, hash_salt, file_index>>

\* FetchRateLimited with the page counted inside the retry loop, before the
\* fetch is known to have succeeded
FetchRateLimitedCounted(p) ==
    /\ pc[p] = "fetch"
    /\ attempts' = [attempts EXCEPT ![p] = Min(@ + 1, MaxRetries)]
    /\ printed' = [printed EXCEPT ![p] = "rate limited"]
    /\ pc' = [pc EXCEPT ![p] = "sleep"]
    /\ num_pages' = num_pages - 1
    /\ UNCHANGED <<size_limit, queues, files, visited, timeout,
                   hash_salt, url, file_index>>

\* parse_url: the content source answers "received 429 HTTP response";
\* the process reports it and goes to sleep
FetchRateLimited(p) ==
    /\ pc[p] = "fetch"
    /\ attempts' = [attempts EXCEPT ![p] = Min(@ + 1, MaxRetries)]
    /\ printed' = [printed EXCEPT ![p] = "rate limited"]
    /\ pc' = [pc EXCEPT ![p] = "sleep"]
    /\ UNCHANGED <<num_pages, size_limit, queues, files, visited, timeout,
                   hash_salt, url, file_index>>

\* parse_url: time.sleep(2) is over and the while True loop tries the same
\* url again; nothing counts or limits the rounds
Retry(p) ==
    /\ pc[p] = "sleep"
    /\ pc' = [pc EXCEPT ![p] = "fetch"]
    /\ printed' = [printed EXCEPT ![p] = "processing"]
    /\ UNCHANGED <<num_pages, size_limit, queues, files, visited, timeout,
                   hash_salt, url, file_index, attempts>>

\* FetchError with the page counted although the fetch failed
FetchErrorCounted(p) ==
    /\ pc[p] = "fetch"
    /\ pc' = [pc EXCEPT ![p] = "loop"]
    /\ printed' = [printed EXCEPT ![p] = "fetch error"]
    /\ num_pages' = num_pages - 1
    /\ UNCHANGED <<size_limit, queues, files, visited, timeout,
                   hash_salt, url, file_index, attempts>>

\* parse_url: the fetch raises any other exception; the url is given up
FetchError(p) ==
    /\ pc[p] = "fetch"
    /\ pc' = [pc EXCEPT ![p] = "loop"]
    /\ printed' = [printed EXCEPT ![p] = "fetch error"]
    /\ UNCHANGED <<num_pages, size_limit, queues, files, visited, timeout,
                   hash_salt, url, file_index, attempts>>

\* FetchOk with the page counted as soon as the submission has arrived,
\* before it is saved
FetchOkCounted(p) ==
    /\ pc[p] = "fetch"
    /\ queues' = ParseComments(queues, p, CommentsOf(url[p]))
    /\ pc' = [pc EXCEPT ![p] = "save"]
    /\ num_pages' = num_pages - 1
    /\ UNCHANGED <<size_limit, files, visited, timeout, hash_salt,
                   url, file_index, attempts, printed>>

\* parse_submission: the submission and its comments arrive, every comment
\* is expanded, then save_to_json is entered
FetchOk(p) ==
    /\ pc[p] = "fetch"
    /\ queues' = ParseComments(queues, p, CommentsOf(url[p]))
    /\ pc' = [pc EXCEPT ![p] = "save"]
    /\ UNCHANGED <<num_pages, size_limit, files, visited, timeout, hash_salt,
                   url, file_index, attempts, printed>>

\* save_to_json: the active file is chosen
ChooseFile(p) ==
    /\ pc[p] = "save"
    /\ file_index' = [file_index EXCEPT ![p] = NextIndex(files, 0)]
    /\ pc' = [pc EXCEPT ![p] = "write"]
    /\ UNCHANGED <<num_pages, size_limit, queues, files, visited, timeout,
                   hash_salt, url, attempts, printed>>

\* save_to_json: the line is appended to the chosen file
WriteOk(p) ==
    /\ pc[p] = "write"
    /\ files' = AppendLine(files, file_index[p], [url |-> url[p], by |-> p])
    /\ pc' = [pc EXCEPT ![p] = "charge_bytes"]
    /\ UNCHANGED <<num_pages, size_limit, queues, visited, timeout, hash_salt,
                   url, file_index, attempts, printed>>

\* WriteError with the exception swallowed inside save_to_json, which then
\* goes on to the byte charge
WriteErrorSwallowed(p) ==
    /\ pc[p] = "write"
    /\ \E created \in BOOLEAN :
          files' = IF created THEN Opened(files, file_index[p]) ELSE files
    /\ pc' = [pc EXCEPT ![p] = "charge_bytes"]
    /\ printed' = [printed EXCEPT ![p] = "write error"]
    /\ UNCHANGED <<num_pages, size_limit, queues, visited, timeout, hash_salt,
                   url, file_index, attempts>>

\* save_to_json: makedirs, open or the write raises; the exception reaches
\* the handler of parse_url, which gives the url up
WriteError(p) ==
    /\ pc[p] = "write"
    /\ \E created \in BOOLEAN :
          files' = IF created THEN Opened(files, file_index[p]) ELSE files
    /\ pc' = [pc EXCEPT ![p] = "loop"]
    /\ printed' = [printed EXCEPT ![p] = "write error"]
    /\ UNCHANGED <<num_pages, size_limit, queues, visited, timeout, hash_salt,
                   url, file_index, attempts>>

\* ChargeBytes with the size of the file taken off instead of the size of
\* the json object
ChargeBytesOfFile(p) ==
    /\ pc[p] = "charge_bytes"
    /\ size_limit' = size_limit - GetSize(files, file_index[p])
    /\ pc' = [pc EXCEPT ![p] = "charge_page"]
    /\ printed' = [printed EXCEPT ![p] = "data remaining"]
    /\ UNCHANGED <<num_pages, queues, files, visited, timeout, hash_salt,
                   url, file_index, attempts>>

\* save_to_json: the size of the json object is taken off size_limit
ChargeBytes(p) ==
    /\ pc[p] = "charge_bytes"
    /\ size_limit' = size_limit - JsonLen(url[p])
    /\ pc' = [pc EXCEPT ![p] = "charge_page"]
    /\ printed' = [printed EXCEPT ![p] = "data remaining"]
    /\ UNCHANGED <<num_pages, queues, files, visited, timeout, hash_salt,
                   url, file_index, attempts>>

\* ChargePage without the lock: the read-modify-write of a process that
\* runs together with another one's is lost
ChargePageUnlocked(p) ==
    /\ pc[p] = "charge_page"
    /\ num_pages' = IF \E q \in Procs \ {p} : pc[q] = "charge_page"
                    THEN num_pages
                    ELSE num_pages - 1
    /\ pc' = [pc EXCEPT ![p] = "loop"]
    /\ UNCHANGED <<size_limit, queues, files, visited, timeout, hash_salt,
                   url, file_index, attempts, printed>>

\* parse_url: the page is counted as processed
ChargePage(p) ==
    /\ pc[p] = "charge_page"
    /\ num_pages' = num_pages - 1
    /\ pc' = [pc EXCEPT ![p] = "loop"]
    /\ UNCHANGED <<size_limit, queues, files, visited, timeout, hash_salt,
                   url, file_index, attempts, printed>>

\* a step of the program; the history of the run is left alone
Next ==
    \E p \in Procs :
        \/ SpiderExhausted(p) /\ UNCHANGED hist
        \/ SpiderEmpty(p) /\ UNCHANGED hist
        \/ SpiderGet(p) /\ UNCHANGED hist
        \/ FetchRateLimited(p) /\ UNCHANGED hist
        \/ Retry(p) /\ UNCHANGED hist
        \/ FetchError(p) /\ UNCHANGED hist
        \/ FetchOk(p) /\ UNCHANGED hist
        \/ ChooseFile(p) /\ UNCHANGED hist
        \/ WriteOk(p) /\ UNCHANGED hist
        \/ WriteError(p) /\ UNCHANGED hist
        \/ ChargeBytes(p) /\ UNCHANGED hist
        \/ ChargePage(p) /\ UNCHANGED hist

Spec == Init /\ [][Next]_vars

\* everything process p can do
Step(p) ==
    \/ SpiderExhausted(p)
    \/ SpiderEmpty(p)
    \/ SpiderGet(p)
    \/ FetchRateLimited(p)
    \/ Retry(p)
    \/ FetchError(p)
    \/ FetchOk(p)
    \/ ChooseFile(p)
    \/ WriteOk(p)
    \/ WriteError(p)
    \/ ChargeBytes(p)
    \/ ChargePage(p)

\* every spider is an operating-system process of its own and keeps running
\* while it has something to do; what the content source answers is not
\* constrained
FairSpec == Spec /\ \A p \in Procs : WF_vars(Step(p))

TypeOK ==
    /\ num_pages \in Int
    /\ size_limit \in Int
    /\ \A p \in Procs : pc[p] \in {"loop", "fetch", "sleep", "save", "write",
                                   "charge_bytes", "charge_page", "stopped"}
    /\ \A p \in Procs : visited[p] \subseteq Urls

\* ---------------------------------------------- vocabulary of the properties

\* the positions <<file index, line number>> of all persisted lines
Lines == UNION {{<<i, k>> : k \in 1 .. Len(files[i])} : i \in DOMAIN files}

LineAt(pos) == files[pos[1]][pos[2]]

LineCount == Cardinality(Lines)

\* the lines process p has written for url u
LinesOf(u, p) == {pos \in Lines : LineAt(pos) = [url |-> u, by |-> p]}

\* how many lines process p has written for the url it holds
Saved(p) == Cardinality(LinesOf(url[p], p))

RECURSIVE SumJsonLen(_)
SumJsonLen(S) ==
    IF S = {} THEN 0
    ELSE LET pos == CHOOSE x \in S : TRUE
         IN  JsonLen(LineAt(pos).url) + SumJsonLen(S \ {pos})

PagesCharged == MaxPages - num_pages

BytesCharged == MaxSize - size_limit

MaxJsonLen == CHOOSE n \in {JsonLen(u) : u \in Urls} :
                  \A u \in Urls : JsonLen(u) <= n

AllStopped == \A p \in Procs : pc[p] = "stopped"

\* processes that have appended their line and not yet charged the page
Uncharged == {p \in Procs : pc[p] \in {"charge_bytes", "charge_page"}}

Front(s) == SubSeq(s, 1, Len(s) - 1)

\* ------------------------------------------------------------------ claims

\* C1: once a url has been added to the visited set of any process, no
\* process starts a fetch for it again: no url is ever claimed (added to
\* visited, which parse_url does right before the fetch) by two processes.
C1_FetchedOnce ==
    \A p, q \in Procs : p # q => visited[p] \cap visited[q] = {}

\* C2: for every identifier the queue index is in [0, num_procs) and is the
\* same in every process, however the processes were started.
C2_AssignDeterministic ==
    \A x \in Identifiers : \A p, q \in Procs :
        /\ Hash(p, x) \in 0 .. (num_procs - 1)
        /\ Hash(p, x) = Hash(q, x)

\* C3: neither counter is negative by more than one in-flight decrement:
\* num_pages >= -1 and size_limit >= -(largest serialized record).
C3_BoundedOvershoot ==
    /\ num_pages >= -1
    /\ size_limit >= -MaxJsonLen

\* C4: a counter is decremented only when it is > 0 at the moment of the
\* decrement; a charge attempted at <= 0 leaves the counter unchanged.
C4_ChargeChecksRemaining ==
    [][/\ (num_pages' # num_pages => num_pages > 0)
       /\ (size_limit' # size_limit => size_limit > 0)]_vars

\* C5: no line is appended to a file whose size is already >= the rotation
\* ceiling: in every file the lines before the last one sum to less than the
\* ceiling, so no file exceeds the ceiling by more than one record.
C5_RotationCeiling ==
    \A i \in DOMAIN files :
        files[i] # << >> => SumLines(Front(files[i])) < RotateSize

\* C6: when all processes have stopped, the number of lines equals the
\* number of page charges and the persisted records have distinct ids.
C6_LinesMatchCharges ==
    AllStopped =>
        /\ LineCount = PagesCharged
        /\ \A a, b \in Lines : a # b => LineAt(a).url # LineAt(b).url

\* C7: every persisted record takes exactly the length of its serialization
\* off size_limit, whatever the file sizes and rotation: while no process is
\* between its append and its byte charge, the bytes charged are the sum of
\* the serialized lengths of all persisted records.
C7_BytesChargedExact ==
    (\A p \in Procs : pc[p] # "charge_bytes") => BytesCharged = SumJsonLen(Lines)

\* C7 happens: records in two files (a rotation took place) are all charged
C7_Witness ==
    /\ \A p \in Procs : pc[p] # "charge_bytes"
    /\ \E i, j \in DOMAIN files : i # j /\ files[i] # << >> /\ files[j] # << >>

\* the steps of process p that handle a 429 answer: the answer arrives, and
\* the sleep ends
IsRateLimitedStep(p) ==
    \/ pc[p] = "fetch" /\ pc'[p] = "sleep"
    \/ pc[p] = "sleep" /\ pc'[p] # "sleep"

\* C8: a url answered with 429 any number of times and then fetched gives
\* one record and one page charge in that processing: a 429 answer changes
\* no counter, file or queue and keeps the process on the same url; the url
\* has no line before its append and one after it; and the pages charged are
\* the lines written less the processes that have yet to charge theirs.
C8_RetryChargesOnce ==
    /\ [](/\ \A p \in Procs :
               /\ pc[p] \in {"fetch", "sleep", "save", "write"} => Saved(p) = 0
               /\ pc[p] \in {"charge_bytes", "charge_page"} => Saved(p) = 1
          /\ PagesCharged = LineCount - Cardinality(Uncharged))
    /\ [][\A p \in Procs : IsRateLimitedStep(p) =>
              /\ url'[p] = url[p]
              /\ pc'[p] \in {"sleep", "fetch"}
              /\ UNCHANGED <<num_pages, size_limit, files, queues, visited>>]_vars

\* C8 happens: a url was answered with 429 twice, then fetched, saved and
\* charged
C8_Witness ==
    \E p \in Procs :
        /\ pc[p] = "loop"
        /\ printed[p] = "data remaining"
        /\ attempts[p] >= 2
        /\ Saved(p) = 1
        /\ PagesCharged >= 1

\* C9: when the fetch fails with another error the url is given up: no queue
\* receives it, no counter changes, no line is written for it, and the
\* process is back at the head of its loop to take the next url.
C9_FetchErrorAbandons ==
    /\ [][\A p \in Procs :
              (pc[p] = "fetch" /\ printed'[p] = "fetch error") =>
                  /\ pc'[p] = "loop"
                  /\ UNCHANGED <<num_pages, size_limit, files, queues>>]_vars
    /\ [](\A p \in Procs : printed[p] = "fetch error" => Saved(p) = 0)

\* C9 happens: a process gave a url up after a fetch error and has a next
\* url waiting in its queue
C9_Witness ==
    \E p \in Procs :
        /\ printed[p] = "fetch error"
        /\ pc[p] = "loop"
        /\ url[p] \in visited[p]
        /\ queues[p] # << >>

\* the step of process p in which its append fails
IsWriteErrorStep(p) == pc[p] = "write" /\ printed'[p] = "write error"

\* C10: a failed append drops the record and charges nothing, and a counter
\* only changes in a step of a process whose line has been appended.
C10_WriteErrorNotCharged ==
    /\ [][\A p \in Procs : IsWriteErrorStep(p) =>
              /\ pc'[p] = "loop"
              /\ LineCount' = LineCount
              /\ UNCHANGED <<num_pages, size_limit>>]_vars
    /\ [][(num_pages' # num_pages \/ size_limit' # size_limit) =>
              \E p \in Procs : /\ pc[p] \in {"charge_bytes", "charge_page"}
                               /\ pc'[p] # pc[p]
                               /\ Saved(p) = 1]_vars
    /\ [](\A p \in Procs : printed[p] = "write error" => Saved(p) = 0)

\* C10 happens: an append failed while another record was persisted and
\* charged
C10_Witness ==
    \E p \in Procs :
        /\ printed[p] = "write error"
        /\ pc[p] = "loop"
        /\ Saved(p) = 0
        /\ LineCount >= 1
        /\ BytesCharged >= 1

\* ----------------------------------------------------- the run with history

\* the depths of the urls a step has added to the queues: each is one
\* expansion further from a seed than the url that was expanded (the count
\* stops at HopLimit + 1)
Deepened(p) ==
    [i \in Procs |->
        queue_depth[i] \o [k \in 1 .. (Len(queues'[i]) - Len(queues[i])) |->
                              Min(depth[p] + 1, HopLimit + 1)]]

HistoryNext ==
    \E p \in Procs :
        \/ SpiderExhausted(p) /\ UNCHANGED hist
        \/ /\ SpiderEmpty(p)
           /\ idle' = [idle EXCEPT ![p] = @ + 1]
           /\ UNCHANGED <<depth, queue_depth>>
        \/ /\ SpiderGet(p)
           /\ idle' = [idle EXCEPT ![p] = 0]
           /\ depth' = [depth EXCEPT ![p] = Head(queue_depth[p])]
           /\ queue_depth' = [queue_depth EXCEPT ![p] = Tail(@)]
        \/ FetchRateLimited(p) /\ UNCHANGED hist
        \/ Retry(p) /\ UNCHANGED hist
        \/ FetchError(p) /\ UNCHANGED hist
        \/ /\ FetchOk(p)
           /\ queue_depth' = Deepened(p)
           /\ UNCHANGED <<idle, depth>>
        \/ ChooseFile(p) /\ UNCHANGED hist
        \/ WriteOk(p) /\ UNCHANGED hist
        \/ WriteError(p) /\ UNCHANGED hist
        \/ ChargeBytes(p) /\ UNCHANGED hist
        \/ ChargePage(p) /\ UNCHANGED hist

HistorySpec == Init /\ [][HistoryNext]_<<vars, hist>>

\* C11 .. C19

\* C11: every item has a hop count >= 0, an item found by expanding one
\* with hop count h has h - 1, and an item with hop count 0 is not expanded:
\* no queued or held url is more than HopLimit expansions away from a seed.
C11_HopsBounded ==
    /\ \A i \in Procs : \A k \in 1 .. Len(queue_depth[i]) :
           HopLimit - queue_depth[i][k] >= 0
    /\ \A p \in Procs : HopLimit - depth[p] >= 0

\* C15: a process stops by idle timeout only after its queue was found
\* empty, without a url taken in between, for longer than the timeout.
C15_IdleTimeout ==
    \A p \in Procs :
        printed[p] = "timed out" => idle[p] * sleep_time > InitTimeout

\* C12: no process retries one url forever: a process that sleeps after a
\* 429 answer eventually leaves that url, and every process eventually
\* stops.
C12_RetriesEnd ==
    /\ \A p \in Procs : (pc[p] = "sleep") ~> (pc[p] \notin {"sleep", "fetch"})
    /\ <>AllStopped

\* C13: every queued url sits on the queue that the hash of the url itself
\* names (in the interpreter of whoever put it there).
C13_RoutedByOwnHash ==
    \A i \in Procs : \A k \in 1 .. Len(queues[i]) :
        \E q \in Interpreters : i = Hash(q, queues[i][k])

\* C14: at no time are two processes between choosing the active file and
\* finishing the append of their line.
C14_AppendsSerialized ==
    Cardinality({p \in Procs : pc[p] = "write"}) <= 1

\* C16: when all processes have stopped and budget remains, every queue is
\* empty.
C16_StoppedQueuesEmpty ==
    (AllStopped /\ num_pages > 0 /\ size_limit > 0) =>
        \A i \in Procs : queues[i] = << >>

\* C17: every step leaves num_pages unchanged or takes exactly 1 off, leaves
\* size_limit unchanged or takes the length of one record off, never adds to
\* either, and the charge of a process always takes effect.
C17_CountersOnlyDecrease ==
    [][/\ num_pages' \in {num_pages, num_pages - 1}
       /\ \/ size_limit' = size_limit
          \/ \E u \in Urls : size_limit' = size_limit - JsonLen(u)
       /\ \A p \in Procs :
             /\ (pc[p] = "charge_page" /\ pc'[p] # pc[p])
                    => num_pages' = num_pages - 1
             /\ (pc[p] = "charge_bytes" /\ pc'[p] # pc[p])
                    => size_limit' = size_limit - JsonLen(url[p])]_vars

\* C17 happens: both counters have been decremented more than once
C17_Witness ==
    /\ PagesCharged >= 2
    /\ BytesCharged > MaxJsonLen
    /\ num_pages < MaxPages /\ size_limit < MaxSize

\* processes whose line is appended and whose bytes are not yet charged
AwaitingBytes == {p \in Procs : pc[p] = "charge_bytes"}

\* processes inside an item
InsideItem == {p \in Procs : pc[p] \notin {"loop", "stopped"}}

RECURSIVE SumHeld(_)
SumHeld(P) ==
    IF P = {} THEN 0
    ELSE LET p == CHOOSE x \in P : TRUE
         IN  JsonLen(url[p]) + SumHeld(P \ {p})

\* C18: per item the line is appended first, then its bytes are charged,
\* then its page: the bytes charged are those of all lines but the ones
\* whose writer is about to charge them, the pages charged are the lines
\* less the writers still to charge bytes or page; so page charges <= byte
\* charges <= lines, each gap at most the number of processes inside an item.
C18_EffectOrder ==
    LET byteCharges == LineCount - Cardinality(AwaitingBytes)
    IN  /\ BytesCharged = SumJsonLen(Lines) - SumHeld(AwaitingBytes)
        /\ PagesCharged = byteCharges - Cardinality(Uncharged \ AwaitingBytes)
        /\ PagesCharged <= byteCharges /\ byteCharges <= LineCount
        /\ LineCount - PagesCharged <= Cardinality(InsideItem)
        /\ \A p \in Procs : pc[p] \in {"fetch", "sleep", "save", "write"}
                               => LinesOf(url[p], p) = {}

\* C18 happens: one process has appended and not charged its bytes, another
\* has charged its bytes and not its page
C18_Witness ==
    /\ \E p, q \in Procs : pc[p] = "charge_bytes" /\ pc[q] = "charge_page"
    /\ PagesCharged >= 1

\* a file that may take another line: absent or below the ceiling
Open(i) == i \notin DOMAIN files \/ GetSize(files, i) < RotateSize

\* the step in which process p chooses its file
IsChooseStep(p) == pc[p] = "save" /\ pc'[p] = "write"

\* C19: the file chosen is the lowest-numbered one that is absent or below
\* the ceiling and is never lower than a file chosen before; every file
\* numbered below a written file is at or above the ceiling; the existing
\* files are numbered 0, 1, 2, ... without a gap.
C19_LowestOpenFile ==
    /\ [][\A p \in Procs : IsChooseStep(p) =>
              /\ Open(file_index'[p])
              /\ \A j \in 0 .. (file_index'[p] - 1) : ~Open(j)
              /\ \A q \in Procs : file_index'[p] >= file_index[q]]_vars
    /\ [](/\ \A i, j \in DOMAIN files :
               (i < j /\ files[j] # << >>) => GetSize(files, i) >= RotateSize
          /\ DOMAIN files = 0 .. (Cardinality(DOMAIN files) - 1))

\* C19 happens: a process chose file 1 after file 0 had filled up, and wrote
C19_Witness ==
    /\ 1 \in DOMAIN files /\ files[1] # << >>
    /\ \E p \in Procs : file_index[p] = 1 /\ pc[p] = "charge_bytes"

=============================================================================
